---- MODULE Spec2Model ----
(***************************************************************************)
(* A model of src/pathfinding.rs: the WeightedGraph trait and its          *)
(* SimpleGraph implementation, breadth_first_search, the MinPriorityNode   *)
(* ordering and dijkstra_search.                                           *)
(*                                                                         *)
(* One behaviour is one call of one of the two searches on one graph.      *)
(* One step is one iteration of the search's loop (pop, report, goal       *)
(* test, the whole for-loop over the neighbours), or the exit of the loop  *)
(* on an empty frontier.                                                   *)
(***************************************************************************)
EXTENDS Naturals, Integers, Sequences, FiniteSets, Bags, TLC

(***************************************************************************)
(* Bounds of the model.                                                    *)
(***************************************************************************)
\* most edges (adjacency entries) a graph holds
MaxEdges == 3
\* edge weights of a generic WeightedGraph are 0..MaxWeight
MaxWeight == 1
\* most entries the priority queue holds; a push beyond it ends the run in
\* the state "overflow"
MaxFrontier == 4
\* "Visiting" lines are counted per node up to VisitCap (the count saturates)
VisitCap == 2

\* the node values T of the searches (main names its nodes "A", "B", ...)
Nodes == {"A", "B", "C"}

Weights == 0..MaxWeight

\* Option<&T>: None is the empty sequence, Some(n) is <<n>>
None == <<>>

Some(n) == <<n>>

(***************************************************************************)
(* graph::WeightedGraph and graph::SimpleGraph                             *)
(***************************************************************************)
RECURSIVE Reverse(_)
Reverse(s) == IF s = <<>> THEN <<>> ELSE Append(Reverse(Tail(s)), Head(s))

\* SimpleNeighboursVec that falls back to the Vec of some key for an unknown
\* node
SimpleNeighboursVec_Fallback(edges, node) ==
    LET full == {k \in DOMAIN edges : edges[k] # <<>>}
        key == IF node \in DOMAIN edges \/ full = {} THEN node
               ELSE CHOOSE k \in full : TRUE
    IN  IF key \in DOMAIN edges
        THEN [i \in 1..Len(edges[key]) |-> <<1, edges[key][i]>>]
        ELSE <<>>

\* SimpleGraph::neighbours builds Neighbours { nodes }: every entry of the
\* node's Vec paired with the weight 1, or an empty Vec for an unknown node
SimpleNeighboursVec(edges, node) ==
    IF node \in DOMAIN edges
    THEN [i \in 1..Len(edges[node]) |-> <<1, edges[node][i]>>]
    ELSE <<>>

\* Neighbours::next pops from the back of nodes: the iterator yields the Vec
\* in reverse
NeighboursNext(nodes) == Reverse(nodes)

\* graph.neighbours(node), as the sequence of (weight, neighbour) pairs the
\* returned iterator yields.  A graph is SimpleGraph { edges } or another
\* implementor of the trait, which is given by what its iterators yield.
neighbours(g, node) ==
    IF g.impl = "SimpleGraph"
    THEN NeighboursNext(SimpleNeighboursVec(g.edges, node))
    ELSE g.edges[node]

\* the edges <<source, weight, target>> of a graph
EdgesOf(g) ==
    UNION {{<<n, neighbours(g, n)[i][1], neighbours(g, n)[i][2]>> :
               i \in 1..Len(neighbours(g, n))} : n \in Nodes}

\* the lists of at most MaxEdges elements of E
EdgeLists(E) == UNION {[1..k -> E] : k \in 0..MaxEdges}

RECURSIVE OutOf(_, _)
\* what the edge list el gives for the source n, in the order of the list
OutOf(el, n) ==
    IF el = <<>> THEN <<>>
    ELSE IF Head(el)[1] = n THEN <<Head(el)[2]>> \o OutOf(Tail(el), n)
    ELSE OutOf(Tail(el), n)

Sources(el) == {el[i][1] : i \in 1..Len(el)}

\* SimpleGraph::new(edges): a HashMap from some nodes to a Vec of nodes; a
\* key may have an empty Vec and a node need not be a key
SimpleGraphs ==
    {[impl |-> "SimpleGraph",
      edges |-> [n \in (Sources(el) \cup K) |-> OutOf(el, n)]] :
        el \in EdgeLists(Nodes \X Nodes), K \in SUBSET Nodes}

\* any other implementor of WeightedGraph: for every node the (weight,
\* neighbour) pairs its iterator yields, in the order it yields them
WeightedGraphs ==
    {[impl |-> "WeightedGraph",
      edges |-> [n \in Nodes |-> OutOf(el, n)]] :
        el \in EdgeLists(Nodes \X (Weights \X Nodes))}

Graphs == SimpleGraphs \cup WeightedGraphs

(***************************************************************************)
(* The state of one call                                                   *)
(***************************************************************************)
VARIABLES
    graph,          \* the graph argument (read only)
    start,          \* the start argument
    goal,           \* the goal argument: Option<&T> of breadth_first_search,
                    \* &T of dijkstra_search
    call,           \* the function called: "bfs" or "dijkstra"
    pc,             \* "loop": at the head of the loop; "done": returned;
                    \* "overflow": the model's bound MaxFrontier was exceeded
    bfs_frontier,   \* breadth_first_search's frontier (a DList), back last
    visited,        \* breadth_first_search's visited (a HashSet)
    frontier,       \* dijkstra_search's frontier (a PriorityQueue), as a bag
                    \* of MinPriorityNode records
    came_from,      \* dijkstra_search's came_from (a HashMap)
    cost_so_far,    \* dijkstra_search's cost_so_far (a HashMap)
    popped,         \* what the last frontier.pop() returned, as an Option:
                    \* a node (bfs) or a MinPriorityNode (dijkstra)
    visits,         \* per node, the number of "Visiting: <node>" lines
                    \* printed, counted up to VisitCap
    goal_reached,   \* "Goal reached." was printed
    iter            \* the number of loop iterations run so far, modulo 2: it
                    \* tells an iteration that restores every other variable
                    \* from no step at all

vars == <<graph, start, goal, call, pc, bfs_frontier, visited, frontier,
          came_from, cost_so_far, popped, visits, goal_reached, iter>>

\* println!("    Visiting: {}", current)
Report(v, node) ==
    [v EXCEPT ![node] = IF @ < VisitCap THEN @ + 1 ELSE @]

\* Insert that leaves an existing entry as it is (the update closure of
\* insert_or_update_with left out)
Insert_KeepOld(map, k, val) ==
    [x \in (DOMAIN map) \cup {k} |-> IF x \in DOMAIN map THEN map[x] ELSE val]

\* HashMap insert / insert_or_update_with: the entry of key k becomes val
Insert(map, k, val) ==
    [x \in (DOMAIN map) \cup {k} |-> IF x = k THEN val ELSE map[x]]

(***************************************************************************)
(* breadth_first_search                                                    *)
(***************************************************************************)
RECURSIVE BfsExpand_NoInsert(_, _, _)
\* BfsExpand without visited.insert(next)
BfsExpand_NoInsert(nbrs, vis, fr) ==
    IF nbrs = <<>> THEN [visited |-> vis, frontier |-> fr]
    ELSE LET next == Head(nbrs)[2] IN
         IF next \in vis
         THEN BfsExpand_NoInsert(Tail(nbrs), vis, fr)
         ELSE BfsExpand_NoInsert(Tail(nbrs), vis, Append(fr, next))

RECURSIVE BfsExpand_NoContains(_, _, _)
\* BfsExpand without the visited.contains(&next) test
BfsExpand_NoContains(nbrs, vis, fr) ==
    IF nbrs = <<>> THEN [visited |-> vis, frontier |-> fr]
    ELSE LET next == Head(nbrs)[2] IN
         BfsExpand_NoContains(Tail(nbrs), vis \cup {next}, Append(fr, next))

RECURSIVE BfsExpand(_, _, _)
\* for (_, next) in graph.neighbours(current) { ... }: nbrs is what is left
\* of the iterator, vis and fr are visited and frontier so far
BfsExpand(nbrs, vis, fr) ==
    IF nbrs = <<>> THEN [visited |-> vis, frontier |-> fr]
    ELSE LET next == Head(nbrs)[2] IN
         IF next \in vis
         THEN BfsExpand(Tail(nbrs), vis, fr)
         ELSE BfsExpand(Tail(nbrs), vis \cup {next}, Append(fr, next))

\* DListPop that takes from the front (pop_front for pop_back)
DListPop_Front(l) == [item |-> l[1], rest |-> SubSeq(l, 2, Len(l))]

\* DListPop that leaves the element in the list (back() for pop_back())
DListPop_Peek(l) == [item |-> l[Len(l)], rest |-> l]

\* DList::pop is pop_back: the element pushed last
DListPop(l) == [item |-> l[Len(l)], rest |-> SubSeq(l, 1, Len(l) - 1)]

\* BfsIsGoal with ne for eq
BfsIsGoal_Ne(g, current) == g # None /\ g[1] # current

\* goal.map_or(false, |g| g.eq(current))
BfsIsGoal(g, current) == g # None /\ g[1] = current

\* one iteration of the loop with a non-empty frontier
BfsIter ==
    /\ call = "bfs" /\ pc = "loop"
    /\ bfs_frontier # <<>>
    /\ LET p == DListPop(bfs_frontier)
           current == p.item
       IN  /\ popped' = Some(current)
           /\ visits' = Report(visits, current)
           /\ iter' = 1 - iter
           /\ IF BfsIsGoal(goal, current)
              THEN /\ goal_reached' = TRUE
                   /\ pc' = "done"
                   /\ bfs_frontier' = p.rest
                   /\ visited' = visited
              ELSE LET r == BfsExpand(neighbours(graph, current), visited, p.rest)
                   IN  /\ visited' = r.visited
                       /\ bfs_frontier' = r.frontier
                       /\ UNCHANGED <<goal_reached, pc>>
    /\ UNCHANGED <<graph, start, goal, call, frontier, came_from, cost_so_far>>

\* frontier.pop() returns None: break
BfsExit ==
    /\ call = "bfs" /\ pc = "loop"
    /\ bfs_frontier = <<>>
    /\ pc' = "done"
    /\ UNCHANGED <<graph, start, goal, call, bfs_frontier, visited, frontier,
                   came_from, cost_so_far, popped, visits, goal_reached,
                   iter>>

(***************************************************************************)
(* priority::MinPriorityNode and dijkstra_search                           *)
(***************************************************************************)
\* uint::cmp
UintCmp(a, b) == IF a < b THEN "Less" ELSE IF a = b THEN "Equal" ELSE "Greater"

\* cmp without the inversion: self.cost.cmp(&other.cost)
cmp_Natural(self, other) == UintCmp(self.cost, other.cost)

\* MinPriorityNode::cmp: other.cost.cmp(&self.cost)
cmp(self, other) == UintCmp(other.cost, self.cost)

\* #[deriving(Eq, PartialEq)] on MinPriorityNode: == compares every field
eq(self, other) == self.node = other.node /\ self.cost = other.cost

\* PriorityQueue::pop returns a greatest element of the queue; which one
\* among several greatest ones is up to the heap
IsGreatest(e, queue) ==
    /\ BagIn(e, queue)
    /\ \A x \in BagToSet(queue) : cmp(x, e) # "Greater"

\* SkipRelax that also skips a candidate equal to the recorded cost
SkipRelax_Ge(costs, next, new_cost) ==
    next \in DOMAIN costs /\ new_cost >= costs[next]

\* SkipRelax with the comparison turned round
SkipRelax_Less(costs, next, new_cost) ==
    next \in DOMAIN costs /\ new_cost < costs[next]

\* the test of line 156: the neighbour is left alone
SkipRelax(costs, next, new_cost) ==
    next \in DOMAIN costs /\ new_cost > costs[next]

RECURSIVE Relax_EdgeCostOnly(_, _, _, _, _)
\* Relax with new_cost = cost (cost_so_far[current] left out of the sum)
Relax_EdgeCostOnly(nbrs, current, costs, from, fr) ==
    IF nbrs = <<>>
    THEN [cost_so_far |-> costs, came_from |-> from, frontier |-> fr]
    ELSE LET cost == Head(nbrs)[1]
             next == Head(nbrs)[2]
             new_cost == cost
         IN  IF SkipRelax(costs, next, new_cost)
             THEN Relax_EdgeCostOnly(Tail(nbrs), current, costs, from, fr)
             ELSE Relax_EdgeCostOnly(Tail(nbrs), current,
                        Insert(costs, next, new_cost),
                        Insert(from, next, current),
                        fr (+) SetToBag({[node |-> next, cost |-> new_cost]}))

RECURSIVE Relax(_, _, _, _, _)
\* for (cost, next) in graph.neighbours(current) { ... }: nbrs is what is
\* left of the iterator; costs, from and fr are cost_so_far, came_from and
\* frontier so far
Relax(nbrs, current, costs, from, fr) ==
    IF nbrs = <<>>
    THEN [cost_so_far |-> costs, came_from |-> from, frontier |-> fr]
    ELSE LET cost == Head(nbrs)[1]
             next == Head(nbrs)[2]
             new_cost == costs[current] + cost
         IN  IF SkipRelax(costs, next, new_cost)
             THEN Relax(Tail(nbrs), current, costs, from, fr)
             ELSE Relax(Tail(nbrs), current,
                        Insert(costs, next, new_cost),
                        Insert(from, next, current),
                        fr (+) SetToBag({[node |-> next, cost |-> new_cost]}))

\* DijkstraIsGoal with != for ==
DijkstraIsGoal_Ne(g, current) == g # current

\* goal == current
DijkstraIsGoal(g, current) == g = current

\* one iteration of the while loop
DijkstraIter ==
    /\ call = "dijkstra" /\ pc = "loop"
    /\ frontier # EmptyBag
    /\ \E e \in BagToSet(frontier) :
         /\ IsGreatest(e, frontier)
         /\ LET rest == frontier (-) SetToBag({e})
                current == e.node
            IN  IF DijkstraIsGoal(goal, current)
                THEN /\ popped' = Some(e)
                     /\ visits' = Report(visits, current)
                     /\ iter' = 1 - iter
                     /\ goal_reached' = TRUE
                     /\ pc' = "done"
                     /\ frontier' = rest
                     /\ UNCHANGED <<came_from, cost_so_far>>
                ELSE LET r == Relax(neighbours(graph, current), current,
                                    cost_so_far, came_from, rest)
                     IN  IF BagCardinality(r.frontier) > MaxFrontier
                         THEN /\ pc' = "overflow"
                              /\ UNCHANGED <<popped, visits, goal_reached,
                                             frontier, came_from, cost_so_far,
                                             iter>>
                         ELSE /\ popped' = Some(e)
                              /\ visits' = Report(visits, current)
                              /\ iter' = 1 - iter
                              /\ frontier' = r.frontier
                              /\ came_from' = r.came_from
                              /\ cost_so_far' = r.cost_so_far
                              /\ UNCHANGED <<goal_reached, pc>>
    /\ UNCHANGED <<graph, start, goal, call, bfs_frontier, visited>>

\* frontier.is_empty(): the loop ends
DijkstraExit ==
    /\ call = "dijkstra" /\ pc = "loop"
    /\ frontier = EmptyBag
    /\ pc' = "done"
    /\ UNCHANGED <<graph, start, goal, call, bfs_frontier, visited, frontier,
                   came_from, cost_so_far, popped, visits, goal_reached,
                   iter>>

(***************************************************************************)
(* The calls                                                               *)
(***************************************************************************)
\* breadth_first_search(graph, start, goal) up to the loop
InitBfs ==
    /\ call = "bfs"
    /\ goal \in {None} \cup {Some(g) : g \in Nodes}
    /\ bfs_frontier = <<start>>
    /\ visited = {start}
    /\ frontier = EmptyBag
    /\ came_from = <<>>
    /\ cost_so_far = <<>>

\* dijkstra_search(graph, start, goal) up to the loop
InitDijkstra ==
    /\ call = "dijkstra"
    /\ goal \in Nodes
    /\ bfs_frontier = <<>>
    /\ visited = {}
    /\ frontier = SetToBag({[node |-> start, cost |-> 0]})
    /\ came_from = (start :> start)
    /\ cost_so_far = (start :> 0)

\* nothing was popped or printed yet
InitTrace ==
    /\ pc = "loop"
    /\ popped = None
    /\ visits = [n \in Nodes |-> 0]
    /\ goal_reached = FALSE
    /\ iter = 0

\* either search, called on any graph with any start and goal
Init ==
    /\ graph \in Graphs
    /\ start \in Nodes
    /\ InitTrace
    /\ (InitBfs \/ InitDijkstra)

Next == BfsIter \/ BfsExit \/ DijkstraIter \/ DijkstraExit

Spec == Init /\ [][Next]_vars

\* the loops run on: nothing but the search itself decides the next step
FairSpec == Spec /\ WF_vars(Next)

\* breadth_first_search alone, on the SimpleGraphs (it reads no weight, so
\* these are all the adjacency lists it can meet), with its loop running on
BfsInit ==
    /\ graph \in SimpleGraphs
    /\ start \in Nodes
    /\ InitTrace
    /\ InitBfs

BfsNext == BfsIter \/ BfsExit

BfsFairSpec == BfsInit /\ [][BfsNext]_vars /\ WF_vars(BfsNext)

\* dijkstra_search alone, on every graph
DijkstraInit ==
    /\ graph \in Graphs
    /\ start \in Nodes
    /\ InitTrace
    /\ InitDijkstra

DijkstraNext == DijkstraIter \/ DijkstraExit

DijkstraSpec == DijkstraInit /\ [][DijkstraNext]_vars

(***************************************************************************)
(* Reference definitions the properties are stated with                    *)
(***************************************************************************)
RECURSIVE Closure(_, _)
Closure(g, S) ==
    LET T == S \cup {e[3] : e \in {x \in EdgesOf(g) : x[1] \in S}}
    IN  IF T = S THEN S ELSE Closure(g, T)

\* the nodes reachable from s, s included
Reachable(g, s) == Closure(g, {s})

\* the weights of the edges from a to b
WeightsBetween(g, a, b) == {e[2] : e \in {x \in EdgesOf(g) : x[1] = a /\ x[3] = b}}

SetMin(S) == CHOOSE m \in S : \A x \in S : m <= x

\* the sequences of pairwise distinct nodes that lead from s to t along edges
SimplePaths(g, s, t) ==
    {p \in UNION {[1..k -> Nodes] : k \in 1..Cardinality(Nodes)} :
        /\ p[1] = s /\ p[Len(p)] = t
        /\ \A i, j \in 1..Len(p) : i # j => p[i] # p[j]
        /\ \A i \in 1..(Len(p) - 1) : WeightsBetween(g, p[i], p[i + 1]) # {}}

RECURSIVE PathCost(_, _)
\* the least total weight of a walk along the nodes of p
PathCost(g, p) ==
    IF Len(p) <= 1 THEN 0
    ELSE SetMin(WeightsBetween(g, p[1], p[2])) + PathCost(g, Tail(p))

\* brute force: the least total weight over all paths from s to t (weights
\* are not negative, so a cheapest path need not repeat a node)
MinCost(g, s, t) == SetMin({PathCost(g, p) : p \in SimplePaths(g, s, t)})

RECURSIVE ChainCosts(_, _, _, _, _)
\* following from[] from node n for at most k steps: the set of totals the
\* edges (from[n], n) on the way to s can add up to; empty when s is not
\* arrived at within k steps or some step is no edge of g
ChainCosts(g, from, s, n, k) ==
    IF n = s THEN {0}
    ELSE IF k = 0 \/ n \notin DOMAIN from THEN {}
    ELSE {w + c : w \in WeightsBetween(g, from[n], n),
                  c \in ChainCosts(g, from, s, from[n], k - 1)}

\* the number of "Visiting" lines printed
RECURSIVE SumOver(_, _)
SumOver(f, S) ==
    IF S = {} THEN 0
    ELSE LET x == CHOOSE y \in S : TRUE IN f[x] + SumOver(f, S \ {x})

Dijkstra == call = "dijkstra"

Bfs == call = "bfs"

(***************************************************************************)
(* C1: whenever dijkstra_search has popped the goal and printed "Goal      *)
(* reached", cost_so_far[goal] is the least total weight of a path from    *)
(* start to goal, as the brute-force reference MinCost computes it, for    *)
(* every order of the neighbours and of the equal-cost frontier entries.   *)
(***************************************************************************)
C1_GoalCostIsMinimal ==
    (Dijkstra /\ goal_reached) =>
        /\ goal \in DOMAIN cost_so_far
        /\ cost_so_far[goal] = MinCost(graph, start, goal)

\* the goal was reached at a cost below that of a direct edge from start
C1_Witness ==
    /\ Dijkstra /\ goal_reached /\ goal # start
    /\ \E w \in WeightsBetween(graph, start, goal) : cost_so_far[goal] < w

(***************************************************************************)
(* C2: when dijkstra_search has printed "Goal reached", following          *)
(* came_from from goal arrives at start after finitely many steps, every   *)
(* step (came_from[n], n) is an edge of the graph and the weights of these *)
(* edges add up to cost_so_far[goal].                                      *)
(***************************************************************************)
C2_ChainLeadsToStart ==
    (Dijkstra /\ goal_reached) =>
        cost_so_far[goal] \in
            ChainCosts(graph, came_from, start, goal, Cardinality(Nodes))

(***************************************************************************)
(* C3: dijkstra_search terminates on every graph with weights >= 0: the    *)
(* loop is left, by an empty frontier or by the goal popped.  (A run that  *)
(* leaves the model's bound MaxFrontier counts as no violation.)           *)
(***************************************************************************)
C3_DijkstraTerminates ==
    Dijkstra => <>(pc = "done" \/ pc = "overflow")

(***************************************************************************)
(* C4: breadth_first_search with goal = None reports every node reachable  *)
(* from start exactly once and no node that is not reachable: no node is   *)
(* ever reported twice, only reachable nodes are reported, and at the end  *)
(* every reachable node has been reported.                                 *)
(***************************************************************************)
C4_BfsVisitsReachableOnce ==
    (Bfs /\ goal = None) =>
        /\ \A n \in Nodes : visits[n] <= 1
        /\ \A n \in Nodes : visits[n] >= 1 => n \in Reachable(graph, start)
        /\ pc = "done" => \A n \in Reachable(graph, start) : visits[n] = 1

\* an exhaustive search is over on a graph with a cycle through start and
\* a node that is not reachable
C4_Witness ==
    /\ Bfs /\ goal = None /\ pc = "done"
    /\ Reachable(graph, start) # Nodes
    /\ \E e \in EdgesOf(graph) :
         e[1] # start /\ e[1] \in Reachable(graph, start) /\ e[3] = start

(***************************************************************************)
(* C5: breadth_first_search with goal = Some(g) prints "Goal reached" if   *)
(* and only if g is reachable from start: it is printed only for a         *)
(* reachable g, and a search that ends without it had an unreachable g.    *)
(* When it is printed, g is the node visited last and the search is over.  *)
(* No node is visited more than once.                                      *)
(***************************************************************************)
C5_BfsGoalReachedIffReachable ==
    (Bfs /\ goal # None) =>
        /\ goal_reached =>
             /\ goal[1] \in Reachable(graph, start)
             /\ popped = Some(goal[1])
             /\ pc = "done"
        /\ (pc = "done" /\ goal[1] \in Reachable(graph, start)) => goal_reached
        /\ \A n \in Nodes : visits[n] <= 1

\* the goal, another node than start, was reached with nodes still pending
C5_Witness ==
    /\ Bfs /\ goal # None /\ goal_reached
    /\ goal[1] # start
    /\ bfs_frontier # <<>>

(***************************************************************************)
(* C6: breadth_first_search terminates on every graph of the model (with   *)
(* cycles, self-loops and duplicate adjacency entries), and the number of  *)
(* pop iterations that return a node is never more than the number of      *)
(* nodes reachable from start.                                             *)
(***************************************************************************)
C6_BfsTerminates ==
    Bfs => /\ <>(pc = "done")
           /\ [](/\ \A n \in Nodes : visits[n] < VisitCap
                 /\ SumOver(visits, Nodes) <= Cardinality(Reachable(graph, start)))

\* a search is over on a graph with a self-loop and a duplicate entry, after
\* as many iterations as there are reachable nodes
C6_Witness ==
    /\ Bfs /\ pc = "done"
    /\ \E e \in EdgesOf(graph) : e[1] = e[3] /\ e[1] \in Reachable(graph, start)
    /\ \E n \in Reachable(graph, start) :
         \E i, j \in 1..Len(neighbours(graph, n)) :
            i # j /\ neighbours(graph, n)[i][2] = neighbours(graph, n)[j][2]
    /\ SumOver(visits, Nodes) = Cardinality(Reachable(graph, start))

(***************************************************************************)
(* C7: when goal is not reachable from start, dijkstra_search never prints *)
(* "Goal reached" and completes by exhausting the frontier, with no entry  *)
(* for goal in cost_so_far and came_from at completion.  (A run that       *)
(* leaves the model's bound MaxFrontier counts as no violation.)           *)
(***************************************************************************)
C7_UnreachableGoalCompletes ==
    (Dijkstra /\ goal \notin Reachable(graph, start)) =>
        /\ [](~goal_reached)
        /\ <>(\/ pc = "overflow"
              \/ /\ pc = "done"
                 /\ frontier = EmptyBag
                 /\ goal \notin DOMAIN cost_so_far
                 /\ goal \notin DOMAIN came_from)

(***************************************************************************)
(* C8: when start equals goal, both searches print "Goal reached" in their *)
(* first iteration: exactly one node, start, is visited and no neighbour   *)
(* of start is expanded (nothing joins visited or the frontier); for       *)
(* dijkstra_search cost_so_far is {start: 0} throughout.                   *)
(***************************************************************************)
C8_StartIsGoal ==
    LET first == [n \in Nodes |-> IF n = start /\ pc = "done" THEN 1 ELSE 0] IN
    /\ (Dijkstra /\ goal = start) =>
         /\ pc \in {"loop", "done"}
         /\ visits = first
         /\ pc = "done" => goal_reached /\ frontier = EmptyBag
         /\ cost_so_far = (start :> 0)
    /\ (Bfs /\ goal = Some(start)) =>
         /\ visits = first
         /\ pc = "done" => goal_reached /\ bfs_frontier = <<>>
         /\ visited = {start}

\* dijkstra_search is over with start = goal, and start has a neighbour
\* other than itself
C8_Witness ==
    /\ Dijkstra /\ goal = start /\ pc = "done"
    /\ \E e \in EdgesOf(graph) : e[1] = start /\ e[3] # start

(***************************************************************************)
(* C9: an iteration of dijkstra_search that pops an entry whose cost is    *)
(* greater than the cost recorded in cost_so_far for its node skips the    *)
(* entry: nothing is printed, the goal is not tested and no neighbour is   *)
(* relaxed; the entry just leaves the frontier.                            *)
(***************************************************************************)
C9_StalePopSkipped ==
    [][(/\ Dijkstra /\ pc = "loop" /\ pc' # "overflow" /\ iter' # iter
        /\ popped'[1].cost > cost_so_far[popped'[1].node])
       => /\ visits' = visits
          /\ goal_reached' = goal_reached
          /\ cost_so_far' = cost_so_far
          /\ came_from' = came_from
          /\ frontier' = frontier (-) SetToBag({popped'[1]})]_vars

(***************************************************************************)
(* C10: in a dijkstra_search call an entry of cost_so_far is never removed *)
(* and its value never increases; it changes only in an iteration, to the  *)
(* cost of the popped node plus the weight of an edge from the popped node *)
(* to the entry's node.                                                    *)
(***************************************************************************)
C10_CostsOnlyDecrease ==
    [][Dijkstra =>
        \A n \in DOMAIN cost_so_far :
           /\ n \in DOMAIN cost_so_far'
           /\ cost_so_far'[n] <= cost_so_far[n]
           /\ cost_so_far'[n] # cost_so_far[n] =>
                /\ iter' # iter
                /\ \E w \in WeightsBetween(graph, popped'[1].node, n) :
                      cost_so_far'[n] = cost_so_far[popped'[1].node] + w]_vars

\* a pending entry costs more than what is recorded for its node: the
\* node's recorded cost was lowered after that entry was pushed
C10_Witness ==
    /\ Dijkstra
    /\ \E e \in BagToSet(frontier) : e.cost > cost_so_far[e.node]

(***************************************************************************)
(* C11: when start is no key of the SimpleGraph's edges, or has an empty   *)
(* list of neighbours (in either kind of graph), neighbours(start) yields  *)
(* nothing, and a search with no goal or a goal other than start visits    *)
(* start alone, once, never prints "Goal reached", and has an empty        *)
(* frontier after its first iteration, so that it ends with the next test  *)
(* of the loop.                                                            *)
(***************************************************************************)
StartHasNoEdges ==
    \/ start \notin DOMAIN graph.edges
    \/ graph.edges[start] = <<>>

GoalIsNotStart ==
    IF Bfs THEN goal # Some(start) ELSE goal # start

C11_IsolatedStart ==
    (StartHasNoEdges /\ GoalIsNotStart) =>
        /\ neighbours(graph, start) = <<>>
        /\ visits = [n \in Nodes |-> IF n = start /\ popped # None THEN 1 ELSE 0]
        /\ ~goal_reached
        /\ pc \in {"loop", "done"}
        /\ popped # None => (bfs_frontier = <<>> /\ frontier = EmptyBag)
        /\ pc = "done" => popped # None

\* a search from a start that is no key of edges is over, on a graph whose
\* other nodes have edges
C11_Witness ==
    /\ graph.impl = "SimpleGraph"
    /\ start \notin DOMAIN graph.edges
    /\ \E k \in DOMAIN graph.edges : graph.edges[k] # <<>>
    /\ GoalIsNotStart
    /\ pc = "done"
    /\ visits[start] = 1

(***************************************************************************)
(* C12: for any two MinPriorityNode values a and b (here: any two that a   *)
(* dijkstra_search call holds in its frontier or has just popped), a       *)
(* compares as greater than b exactly when a.cost < b.cost, and a == b     *)
(* exactly when a.cost = b.cost, that is exactly when cmp reports Equal:   *)
(* neither depends on the nodes.                                           *)
(***************************************************************************)
MinPriorityNodes ==
    BagToSet(frontier) \cup {popped[i] : i \in 1..Len(popped)}

C12_OrderAndEqualityByCostOnly ==
    Dijkstra =>
        \A a, b \in MinPriorityNodes :
           /\ cmp(a, b) = "Greater" <=> a.cost < b.cost
           /\ eq(a, b) <=> a.cost = b.cost
           /\ eq(a, b) <=> cmp(a, b) = "Equal"

(***************************************************************************)
(* C13: two calls of dijkstra_search on the same graph with the same start *)
(* and goal end with the same cost_so_far and the same came_from, also     *)
(* when they take equal-cost frontier entries in different orders.  The    *)
(* second call is ReferenceRun: the same loop, which takes among the       *)
(* greatest entries the one CHOOSE picks.                                  *)
(***************************************************************************)
\* the iterations after which a reference run that has not ended is given up
ReferenceSteps == Cardinality(Nodes) * (MaxEdges + 1)

RECURSIVE ReferenceLoop(_, _, _, _)
ReferenceLoop(fr, costs, from, k) ==
    IF fr = EmptyBag
    THEN [ended |-> TRUE, goal_reached |-> FALSE,
          cost_so_far |-> costs, came_from |-> from]
    ELSE LET e == CHOOSE x \in BagToSet(fr) : IsGreatest(x, fr)
             rest == fr (-) SetToBag({e})
         IN  IF DijkstraIsGoal(goal, e.node)
             THEN [ended |-> TRUE, goal_reached |-> TRUE,
                   cost_so_far |-> costs, came_from |-> from]
             ELSE IF k = 0
             THEN [ended |-> FALSE, goal_reached |-> FALSE,
                   cost_so_far |-> costs, came_from |-> from]
             ELSE LET r == Relax(neighbours(graph, e.node), e.node,
                                 costs, from, rest)
                  IN  ReferenceLoop(r.frontier, r.cost_so_far, r.came_from,
                                    k - 1)

ReferenceRun ==
    ReferenceLoop(SetToBag({[node |-> start, cost |-> 0]}),
                  (start :> 0), (start :> start), ReferenceSteps)

C13_SameResultInAnyOrder ==
    (Dijkstra /\ pc = "done" /\ ReferenceRun.ended) =>
        /\ cost_so_far = ReferenceRun.cost_so_far
        /\ came_from = ReferenceRun.came_from

(***************************************************************************)
(* C13, as amended: what a dijkstra_search call that ends reports for the  *)
(* goal is fixed by the graph, start and goal alone, and so the same in    *)
(* any two calls: "Goal reached" is printed exactly when goal is reachable *)
(* from start, with cost_so_far[goal] the least path cost, and otherwise   *)
(* cost_so_far has no entry for goal.                                      *)
(***************************************************************************)
C13_SameGoalResult ==
    (Dijkstra /\ pc = "done") =>
        IF goal \in Reachable(graph, start)
        THEN /\ goal_reached
             /\ goal \in DOMAIN cost_so_far
             /\ cost_so_far[goal] = MinCost(graph, start, goal)
        ELSE /\ ~goal_reached
             /\ goal \notin DOMAIN cost_so_far

\* two calls have ended with the same cost for the goal and different
\* came_from
C13_Witness ==
    /\ Dijkstra /\ pc = "done" /\ goal_reached
    /\ ReferenceRun.ended /\ ReferenceRun.goal_reached
    /\ cost_so_far[goal] = ReferenceRun.cost_so_far[goal]
    /\ came_from # ReferenceRun.came_from

(***************************************************************************)
(* C14: the frontier of breadth_first_search is a LIFO stack.  Every       *)
(* iteration pops and visits the last element of the frontier, the one     *)
(* pushed most recently among the pending ones; the elements before it     *)
(* stay, in their order, and what the iteration pushes comes after them.   *)
(* So of two pending nodes the one pushed later is always visited first.   *)
(***************************************************************************)
C14_BfsFrontierIsLifo ==
    [][(Bfs /\ iter' # iter) =>
        LET n == Len(bfs_frontier) IN
        /\ popped' = Some(bfs_frontier[n])
        /\ Len(bfs_frontier') >= n - 1
        /\ SubSeq(bfs_frontier', 1, n - 1) = SubSeq(bfs_frontier, 1, n - 1)]_vars

\* start yielded two neighbours; the one pushed second has been visited
\* while the one pushed first is still pending
C14_Witness ==
    /\ Bfs /\ popped # None /\ bfs_frontier # <<>>
    /\ popped[1] # start /\ popped[1] # bfs_frontier[1]
    /\ visits[bfs_frontier[1]] = 0
    /\ \E i, j \in 1..Len(neighbours(graph, start)) :
          /\ i < j
          /\ neighbours(graph, start)[i][2] = bfs_frontier[1]
          /\ neighbours(graph, start)[j][2] = popped[1]

(***************************************************************************)
(* C15: the relaxation of a neighbour next of the popped node current,     *)
(* with candidate = cost_so_far[current] + edge_cost.  The neighbour is    *)
(* left untouched (same cost, same predecessor, no new frontier entry)     *)
(* exactly when it has a recorded cost and candidate is greater than it.   *)
(* In every other case, candidate equal to the recorded cost included,     *)
(* cost_so_far[next] becomes candidate, came_from[next] becomes current    *)
(* and exactly one entry (next, candidate) joins the frontier.  Stated for *)
(* the iterations whose neighbours are pairwise distinct nodes, where one  *)
(* relaxation does not act on the result of another.                       *)
(***************************************************************************)
\* the number of entries of the bag f for the node n
PendingFor(f, n) ==
    BagCardinality([e \in {x \in BagToSet(f) : x.node = n} |-> f[e]])

C15_Relaxation ==
    [][(Dijkstra /\ iter' # iter /\ ~goal_reached') =>
        LET current == popped'[1].node
            nbrs == neighbours(graph, current)
            rest == frontier (-) SetToBag({popped'[1]})
        IN  (\A i, j \in 1..Len(nbrs) : i # j => nbrs[i][2] # nbrs[j][2]) =>
            \A i \in 1..Len(nbrs) :
               LET next == nbrs[i][2]
                   candidate == cost_so_far[current] + nbrs[i][1]
                   entry == [node |-> next, cost |-> candidate]
               IN  IF next \in DOMAIN cost_so_far /\ candidate > cost_so_far[next]
                   THEN /\ cost_so_far'[next] = cost_so_far[next]
                        /\ came_from'[next] = came_from[next]
                        /\ PendingFor(frontier', next) = PendingFor(rest, next)
                   ELSE /\ cost_so_far'[next] = candidate
                        /\ came_from'[next] = current
                        /\ CopiesIn(entry, frontier') = CopiesIn(entry, rest) + 1
                        /\ PendingFor(frontier', next) = PendingFor(rest, next) + 1]_vars

\* the node popped last, on its first visit, yielded pairwise distinct
\* neighbours, and one of them, visited before, was relaxed with a candidate
\* equal to its recorded cost: it has the popped node as its predecessor
\* and a new entry at that cost
C15_Witness ==
    /\ Dijkstra /\ popped # None /\ ~goal_reached
    /\ LET current == popped[1].node
           nbrs == neighbours(graph, current)
       IN  /\ visits[current] = 1
           /\ \A i, j \in 1..Len(nbrs) : i # j => nbrs[i][2] # nbrs[j][2]
           /\ \E i \in 1..Len(nbrs) :
                 LET next == nbrs[i][2] IN
                 /\ next # current
                 /\ visits[next] >= 1
                 /\ cost_so_far[next] = cost_so_far[current] + nbrs[i][1]
                 /\ came_from[next] = current
                 /\ BagIn([node |-> next, cost |-> cost_so_far[next]], frontier)

C17_StartEntriesKept ==
    Dijkstra =>
        /\ cost_so_far[start] = 0
        /\ came_from[start] = start

(***************************************************************************)
(* C18: within one dijkstra_search call no node is reported as visited     *)
(* more than once.                                                         *)
(***************************************************************************)
C18_VisitedAtMostOnce ==
    Dijkstra => \A n \in Nodes : visits[n] <= 1

\* the nodes held by the breadth-first frontier
BfsPending == {bfs_frontier[i] : i \in 1..Len(bfs_frontier)}

(***************************************************************************)
(* C19: in every state of breadth_first_search the frontier holds pairwise *)
(* distinct nodes, every frontier node is in visited, every visited node   *)
(* is reachable from start, and every visited node is either still in the  *)
(* frontier or was popped already.  No node is pushed twice: a node in the *)
(* frontier was never popped, and a popped node was popped once.           *)
(***************************************************************************)
C19_BfsFrontierInvariant ==
    Bfs =>
        /\ \A i, j \in 1..Len(bfs_frontier) :
              bfs_frontier[i] = bfs_frontier[j] => i = j
        /\ BfsPending \subseteq visited
        /\ visited \subseteq Reachable(graph, start)
        /\ \A n \in visited : n \in BfsPending \/ visits[n] >= 1
        /\ \A n \in BfsPending : visits[n] = 0
        /\ \A n \in Nodes : visits[n] <= 1

\* two nodes are pending and the node just expanded has an edge to a node
\* that was visited before, which the contains test kept out of the frontier
C19_Witness ==
    /\ Bfs /\ pc = "loop" /\ popped # None
    /\ Len(bfs_frontier) >= 2
    /\ \E e \in EdgesOf(graph) : e[1] = popped[1] /\ visits[e[3]] >= 1

\* the greatest total a walk is followed to: a node is first recorded at
\* most MaxWeight above a node recorded before it, and is never raised
WalkCap == (Cardinality(Nodes) - 1) * MaxWeight

RECURSIVE WalkClosure(_, _, _)
\* E is a set of edges <<from, weight, to>>, S a set of pairs <<n, c>> and
\* New the pairs of S whose edges were not followed yet
WalkClosure(E, S, New) ==
    LET T == {<<x[2][3], x[1][2] + x[2][2]>> :
                 x \in {y \in New \X E :
                           /\ y[2][1] = y[1][1]
                           /\ y[1][2] + y[2][2] <= WalkCap}} \ S
    IN  IF T = {} THEN S ELSE WalkClosure(E, S \cup T, T)

\* the pairs <<n, c>> such that some walk along edges of g from s to n has
\* total weight c, for c up to WalkCap
WalkCosts(g, s) == WalkClosure(EdgesOf(g), {<<s, 0>>}, {<<s, 0>>})

(***************************************************************************)
(* C20: in every state of dijkstra_search cost_so_far and came_from have   *)
(* the same keys, every entry pending in the frontier is of a node whose   *)
(* recorded cost is at most the entry's cost, and every recorded cost is   *)
(* the total weight of a walk from start to the node along edges of the    *)
(* graph, so it is never below the least cost of a path to the node (0 is  *)
(* below no total of weights).                                             *)
(***************************************************************************)
C20_RecordedCostsAreWalkCosts ==
    Dijkstra =>
        /\ DOMAIN cost_so_far = DOMAIN came_from
        /\ \A e \in BagToSet(frontier) :
              /\ e.node \in DOMAIN cost_so_far
              /\ cost_so_far[e.node] <= e.cost
        /\ {<<n, cost_so_far[n]>> : n \in DOMAIN cost_so_far}
              \subseteq WalkCosts(graph, start)
        /\ \A n \in DOMAIN cost_so_far :
              \/ cost_so_far[n] = 0
              \/ cost_so_far[n] >= MinCost(graph, start, n)

\* a pending entry is dearer than the recorded cost of its node, which was
\* lowered to the total of a walk of more than one edge
C20_Witness ==
    /\ Dijkstra /\ pc = "loop"
    /\ \E e \in BagToSet(frontier) :
          /\ cost_so_far[e.node] < e.cost
          /\ came_from[e.node] # start
          /\ e.cost \in WeightsBetween(graph, start, e.node)

====
